---- MODULE Spec2Model ----
(***************************************************************************)
(* A model of myers-diff.cpp: the bidirectional middle-snake search        *)
(* (FindMiddleSnake), the recursive edit-script builder                    *)
(* (ShortestEditScript) and the positional rendering done by main.         *)
(*                                                                         *)
(* The two diagonal arrays Vf and Vb are function-static objects of class  *)
(* V: they are constructed by the first invocation of FindMiddleSnake and  *)
(* keep both their size and their contents for the rest of the process.    *)
(* An access of V outside [start_, end_] and a read of a cell no one has   *)
(* written are undefined behaviour; the model makes such a read yield any  *)
(* value of Indeterminate and drops such a write.                          *)
(***************************************************************************)
EXTENDS Integers, Sequences, FiniteSets, TLC

\* Bounds of the model.
MaxLen == 3
MaxVal == 2
MaxCalls == 3
SessionLen == 4
StackLimit == 20

VARIABLES
    a,            \* main's old sequence (the `a` handed to ShortestEditScript)
    b,            \* main's new sequence
    stack,        \* the call stack of ShortestEditScript, innermost frame last
    fms,          \* the loop position of the running FindMiddleSnake
    constructed,  \* whether the static Vf and Vb have been constructed
    Vf,           \* static V Vf
    Vb,           \* static V Vb
    result,       \* the Diff returned to main by the last finished call
    prev,         \* the call before the current one: [a, b, result]
    calls,        \* the number of calls of the diff finished so far
    oob           \* whether some key was used outside [start_, end_]

vars == <<a, b, stack, fms, constructed, Vf, Vb, result, prev, calls, oob>>

----------------------------------------------------------------------------
\* Inputs

Values == 1 .. MaxVal

SeqsUpTo(n) == UNION {[1 .. m -> Values] : m \in 0 .. n}

\* main's arrays (lines 216-217)
MainOld == <<1, 4, 27, 21, 23, 24, 26, 28, 13>>
MainNew == <<1, 4, 20, 21, 22, 23, 24, 25, 26, 13>>

Inputs == (SeqsUpTo(MaxLen) \X SeqsUpTo(MaxLen)) \cup {<<MainOld, MainNew>>}

\* n copies of c
Rep(n, c) == [i \in 1 .. n |-> c]

\* The inputs of a process that calls the diff several times: old is 1^n, new
\* is 2^m or 1 2^(m-1).
SessionInputs ==
    {Rep(n, 1) : n \in 0 .. SessionLen} \X
    ({Rep(m, 2) : m \in 0 .. SessionLen} \cup
     {<<1>> \o Rep(m, 2) : m \in 0 .. SessionLen - 1})

----------------------------------------------------------------------------
\* class V (lines 7-21)

\* V(start, end): i_ is new int[end - start + 1], no cell of it initialised.
\* i_ is modelled by the function from the written indices to their values.
NewV(start, end) == [start_ |-> start, end_ |-> end, i_ |-> <<>>]

\* Whether operator[] (index) stays inside the allocation.
InV(v, index) == index - v.start_ >= 0 /\ index - v.start_ <= v.end_ - v.start_

\* What a read of a cell outside the allocation, or of a cell never written,
\* may yield.
Indeterminate == {0, 2 * SessionLen}

\* The values `v[index]` may read.
Get(v, index) ==
    IF InV(v, index) /\ (index - v.start_) \in DOMAIN v.i_
        THEN {v.i_[index - v.start_]}
        ELSE Indeterminate

\* `v[index] = val`
Put(v, index, val) ==
    IF InV(v, index)
        THEN [v EXCEPT !.i_ =
                [j \in (DOMAIN v.i_) \cup {index - v.start_} |->
                    IF j = index - v.start_ THEN val ELSE v.i_[j]]]
        ELSE v

----------------------------------------------------------------------------
\* Diff: std::multiset<std::pair<int, std::string>> (line 24), modelled by the
\* sequence of its elements in the multiset's order.

\* Mutant of StrLess: the tags compared the other way round
StrLessReversed(s, t) == s = "del" /\ t = "add"

\* std::string's operator< on the two tags in use
StrLess(s, t) == s = "add" /\ t = "del"

\* std::pair's operator<
PairLess(p, q) == p[1] < q[1] \/ (p[1] = q[1] /\ StrLess(p[2], q[2]))

\* multiset::insert of one element: after the last element not greater than it
InsertOne(d, p) ==
    LET n == Cardinality({i \in 1 .. Len(d) : ~PairLess(p, d[i])})
    IN  SubSeq(d, 1, n) \o <<p>> \o SubSeq(d, n + 1, Len(d))

RECURSIVE InsertRange(_, _)
\* rtn.insert(_rtn.begin(), _rtn.end())
InsertRange(d, r) ==
    IF r = <<>> THEN d ELSE InsertRange(InsertOne(d, Head(r)), Tail(r))

----------------------------------------------------------------------------
\* Pieces of FindMiddleSnake (lines 68-142)

\* C++'s % (truncating towards zero)
CRem(n, m) == IF n >= 0 THEN n % m ELSE -((-n) % m)

\* Mutant of LoopBound: MAX / 2 in integers, without the ceiling
LoopBoundFloor(MAX) == MAX \div 2

\* std::ceil(MAX / 2.0) (line 89)
LoopBound(MAX) == (MAX + 1) \div 2

\* _abs64(Delta % 2) == 1 (line 113)
IsOdd(Delta) == (IF CRem(Delta, 2) < 0 THEN -CRem(Delta, 2) ELSE CRem(Delta, 2)) = 1

\* Delta % 2 == 0 (line 134)
IsEven(Delta) == CRem(Delta, 2) = 0

\* Mutant of TakeAbove: the comparison the other way round
TakeAboveInverted(k, D, below, above) == k = -D \/ (k # D /\ below > above)

\* The branch of lines 91 and 120: take the x of the k line above.
TakeAbove(k, D, below, above) == k = -D \/ (k # D /\ below < above)

\* old_sequence[x] == new_sequence[y] for a frame f, as the set of outcomes.
\* A read outside main's arrays is undefined and can only follow an undefined
\* read of Vf or Vb: the model does not follow the behaviour further.
SameAt(f, x, y) ==
    LET i == f.old_sequence + x + 1
        j == f.new_sequence + y + 1
    IN  IF i \in 1 .. Len(a) /\ j \in 1 .. Len(b)
            THEN {a[i] = b[j]}
            ELSE {}

RECURSIVE SnakeF(_, _, _)
\* The while loop of lines 105-108: the values x may end with.
SnakeF(f, x, y) ==
    IF ~(x < f.N /\ y < f.M) THEN {x}
    ELSE (IF FALSE \in SameAt(f, x, y) THEN {x} ELSE {})
         \cup (IF TRUE \in SameAt(f, x, y) THEN SnakeF(f, x + 1, y + 1) ELSE {})

RECURSIVE SnakeBForward(_, _, _)
\* Mutant of SnakeB: the elements compared from the front, as in the forward loop
SnakeBForward(f, x, y) ==
    IF ~(x < f.N /\ y < f.M) THEN {x}
    ELSE (IF FALSE \in SameAt(f, x, y) THEN {x} ELSE {})
         \cup (IF TRUE \in SameAt(f, x, y) THEN SnakeBForward(f, x + 1, y + 1) ELSE {})

RECURSIVE SnakeB(_, _, _)
\* The while loop of lines 129-132.
SnakeB(f, x, y) ==
    IF ~(x < f.N /\ y < f.M) THEN {x}
    ELSE (IF FALSE \in SameAt(f, f.N - x - 1, f.M - y - 1) THEN {x} ELSE {})
         \cup (IF TRUE \in SameAt(f, f.N - x - 1, f.M - y - 1)
                  THEN SnakeB(f, x + 1, y + 1) ELSE {})

\* The reciprocal k line, -(k - Delta)
Recip(k, Delta) == -(k - Delta)

\* The guard of the forward overlap check (line 113)
FwdGuard(k, D, Delta) ==
    IsOdd(Delta) /\ Recip(k, Delta) >= -(D - 1) /\ Recip(k, Delta) <= D - 1

\* The guard of the backward overlap check (line 134)
BwdGuard(k, D, Delta) ==
    IsEven(Delta) /\ Recip(k, Delta) >= -D /\ Recip(k, Delta) <= D

\* Mutant of Overlaps: the two searches taken to meet one step early
OverlapsEarly(mine, other, N) == mine + other >= N - 1

\* Lines 114 and 135
Overlaps(mine, other, N) == mine + other >= N

----------------------------------------------------------------------------
\* Frames of ShortestEditScript (lines 164-213)

NewFrame(op, n, np, m, cx, cy) ==
    [old_sequence |-> op, N |-> n, new_sequence |-> np, M |-> m,
     current_x |-> cx, current_y |-> cy,
     pc |-> "start", rtn |-> <<>>,
     D |-> 0, x |-> 0, y |-> 0, u |-> 0, v |-> 0, from |-> "none"]

Top == stack[Len(stack)]

SetTop(f) == [stack EXCEPT ![Len(stack)] = f]

Idle == [D |-> 0, k |-> 0, pass |-> "idle"]

\* Mutant of Subdivide: D > 0 in place of D > 1
SubdivideFromOne(D, x, y, u, v) == D > 0 \/ (x # u /\ y # v)

\* Mutant of Subdivide: the test of the snake's length left out
SubdivideByDistance(D, x, y, u, v) == D > 1

\* Line 171
Subdivide(D, x, y, u, v) == D > 1 \/ (x # u /\ y # v)

\* Lines 199-202
Deletions(N, current_x) == [i \in 1 .. N |-> <<current_x + (i - 1), "del">>]

\* Mutant of Insertions: the positions counted from current_y + 1
InsertionsOffByOne(M, current_y) == [i \in 1 .. M |-> <<current_y + i, "add">>]

\* Lines 206-209
Insertions(M, current_y) == [i \in 1 .. M |-> <<current_y + (i - 1), "add">>]

----------------------------------------------------------------------------
\* The state after main has called ShortestEditScript(a, len, b, len, 0, 0)

InitWith(in) ==
    /\ a = in[1]
    /\ b = in[2]
    /\ stack = <<NewFrame(0, Len(in[1]), 0, Len(in[2]), 0, 0)>>
    /\ fms = Idle
    /\ constructed = FALSE
    /\ Vf = NewV(0, -1)
    /\ Vb = NewV(0, -1)
    /\ result = <<>>
    /\ prev = [a |-> <<>>, b |-> <<>>, result |-> <<>>]
    /\ calls = 0
    /\ oob = FALSE

Init == \E in \in Inputs : InitWith(in)

InitSession == \E in \in SessionInputs : InitWith(in)

\* The base cases of ShortestEditScript: lines 197-212, no call is made.
SESBase ==
    /\ stack # <<>>
    /\ Top.pc = "start"
    /\ ~(Top.N > 0 /\ Top.M > 0)
    /\ stack' = SetTop([Top EXCEPT
            !.pc = "ret",
            !.rtn = IF Top.N > 0 THEN Deletions(Top.N, Top.current_x)
                    ELSE IF Top.M > 0 THEN Insertions(Top.M, Top.current_y)
                    ELSE <<>>])
    /\ UNCHANGED <<a, b, fms, constructed, Vf, Vb, result, prev, calls, oob>>

\* Line 169 and lines 70-83: the call of FindMiddleSnake up to its loop.
FMSBegin ==
    /\ stack # <<>>
    /\ Top.pc = "start"
    /\ Top.N > 0 /\ Top.M > 0
    /\ LET MAX == Top.M + Top.N
           f0  == IF constructed THEN Vf ELSE NewV(-MAX, MAX)
           b0  == IF constructed THEN Vb ELSE NewV(-MAX, MAX)
       IN  /\ Vf' = Put(f0, 1, 0)
           /\ Vb' = Put(b0, 1, 0)
           /\ oob' = (oob \/ ~InV(f0, 1) \/ ~InV(b0, 1))
    /\ constructed' = TRUE
    /\ fms' = [D |-> 0, k |-> 0, pass |-> "fwd"]
    /\ stack' = SetTop([Top EXCEPT !.pc = "fms"])
    /\ UNCHANGED <<a, b, result, prev, calls>>

\* One iteration of the forward loop over k (lines 90-118).
ForwardStep ==
    /\ stack # <<>>
    /\ Top.pc = "fms"
    /\ fms.pass = "fwd"
    /\ LET N == Top.N
           M == Top.M
           Delta == N - M
           D == fms.D
           k == fms.k
           readBelow == k # -D
           readAbove == k = -D \/ k # D
       IN  \E below \in (IF readBelow THEN Get(Vf, k - 1) ELSE {0}),
              above \in (IF readAbove THEN Get(Vf, k + 1) ELSE {0}) :
             LET x_i == IF TakeAbove(k, D, below, above) THEN above ELSE below + 1
                 y_i == x_i - k
             IN  \E x \in SnakeF(Top, x_i, y_i) :
                   LET y == y_i + (x - x_i)
                       Vf1 == Put(Vf, k, x)
                       chk == FwdGuard(k, D, Delta)
                   IN  \E mine \in (IF chk THEN Get(Vf1, k) ELSE {0}),
                          other \in (IF chk THEN Get(Vb, Recip(k, Delta)) ELSE {0}) :
                         /\ Vf' = Vf1
                         /\ oob' = (oob
                                \/ (readBelow /\ ~InV(Vf, k - 1))
                                \/ (readAbove /\ ~InV(Vf, k + 1))
                                \/ ~InV(Vf, k)
                                \/ (chk /\ ~InV(Vb, Recip(k, Delta))))
                         /\ IF chk /\ Overlaps(mine, other, N)
                              THEN /\ stack' = SetTop([Top EXCEPT
                                        !.pc = "snake", !.D = 2 * D - 1,
                                        !.x = x_i, !.y = y_i, !.u = x, !.v = y,
                                        !.from = "fwd"])
                                   /\ fms' = Idle
                              ELSE /\ stack' = stack
                                   /\ fms' = IF k + 2 <= D
                                               THEN [fms EXCEPT !.k = k + 2]
                                               ELSE [fms EXCEPT !.k = -D, !.pass = "bwd"]
    /\ UNCHANGED <<a, b, constructed, Vb, result, prev, calls>>

\* One iteration of the backward loop over k (lines 119-139), with the
\* loop's D++ and the return of line 141 when it was the last one.
BackwardStep ==
    /\ stack # <<>>
    /\ Top.pc = "fms"
    /\ fms.pass = "bwd"
    /\ LET N == Top.N
           M == Top.M
           Delta == N - M
           MAX == M + N
           D == fms.D
           k == fms.k
           readBelow == k # -D
           readAbove == k = -D \/ k # D
       IN  \E below \in (IF readBelow THEN Get(Vb, k - 1) ELSE {0}),
              above \in (IF readAbove THEN Get(Vb, k + 1) ELSE {0}) :
             LET x_i == IF TakeAbove(k, D, below, above) THEN above ELSE below + 1
                 y_i == x_i - k
             IN  \E x \in SnakeB(Top, x_i, y_i) :
                   LET y == y_i + (x - x_i)
                       Vb1 == Put(Vb, k, x)
                       chk == BwdGuard(k, D, Delta)
                   IN  \E mine \in (IF chk THEN Get(Vb1, k) ELSE {0}),
                          other \in (IF chk THEN Get(Vf, Recip(k, Delta)) ELSE {0}) :
                         /\ Vb' = Vb1
                         /\ oob' = (oob
                                \/ (readBelow /\ ~InV(Vb, k - 1))
                                \/ (readAbove /\ ~InV(Vb, k + 1))
                                \/ ~InV(Vb, k)
                                \/ (chk /\ ~InV(Vf, Recip(k, Delta))))
                         /\ IF chk /\ Overlaps(mine, other, N)
                              THEN /\ stack' = SetTop([Top EXCEPT
                                        !.pc = "snake", !.D = 2 * D,
                                        !.x = N - x, !.y = M - y,
                                        !.u = N - x_i, !.v = M - y_i,
                                        !.from = "bwd"])
                                   /\ fms' = Idle
                              ELSE IF k + 2 <= D
                              THEN /\ stack' = stack
                                   /\ fms' = [fms EXCEPT !.k = k + 2]
                              ELSE IF D + 1 <= LoopBound(MAX)
                              THEN /\ stack' = stack
                                   /\ fms' = [D |-> D + 1, k |-> -(D + 1), pass |-> "fwd"]
                              ELSE /\ stack' = SetTop([Top EXCEPT
                                        !.pc = "snake", !.D = 0,
                                        !.x = 0, !.y = 0, !.u = 0, !.v = 0,
                                        !.from = "none"])
                                   /\ fms' = Idle
    /\ UNCHANGED <<a, b, constructed, Vf, result, prev, calls>>

\* Lines 171-175: the graph is subdivided; the call for the part before the snake.
SESSplit ==
    /\ stack # <<>>
    /\ Top.pc = "snake"
    /\ Subdivide(Top.D, Top.x, Top.y, Top.u, Top.v)
    /\ Len(stack) < StackLimit
    /\ stack' = SetTop([Top EXCEPT !.pc = "before"]) \o
            <<NewFrame(Top.old_sequence, Top.x, Top.new_sequence, Top.y,
                       Top.current_x, Top.current_y)>>
    /\ UNCHANGED <<a, b, fms, constructed, Vf, Vb, result, prev, calls, oob>>

\* Lines 182-195: at most one edit; the call for what follows the snake, if any.
SESSingle ==
    /\ stack # <<>>
    /\ Top.pc = "snake"
    /\ ~Subdivide(Top.D, Top.x, Top.y, Top.u, Top.v)
    /\ Len(stack) < StackLimit
    /\ LET N == Top.N
           M == Top.M
       IN  stack' =
             IF M > N
               THEN SetTop([Top EXCEPT !.pc = "tail"]) \o
                    <<NewFrame(Top.old_sequence + N, N - N, Top.new_sequence + N, M - N,
                               Top.current_x + N, Top.current_y + N)>>
             ELSE IF M < N
               THEN SetTop([Top EXCEPT !.pc = "tail"]) \o
                    <<NewFrame(Top.old_sequence + M, N - M, Top.new_sequence + M, M - M,
                               Top.current_x + M, Top.current_y + M)>>
             ELSE SetTop([Top EXCEPT !.pc = "ret"])
    /\ UNCHANGED <<a, b, fms, constructed, Vf, Vb, result, prev, calls, oob>>

\* A recursive call returns (line 212) and its caller goes on: after the part
\* before the snake, lines 176-179 insert the result and call for the part
\* after it; after the last call, lines 180, 187 or 194 insert the result.
Return ==
    /\ Len(stack) > 1
    /\ Top.pc = "ret"
    /\ LET caller == stack[Len(stack) - 1]
           merged == InsertRange(caller.rtn, Top.rtn)
           rest   == SubSeq(stack, 1, Len(stack) - 2)
       IN  stack' =
             IF caller.pc = "before"
               THEN rest \o
                    <<[caller EXCEPT !.pc = "after", !.rtn = merged],
                      NewFrame(caller.old_sequence + caller.u, caller.N - caller.u,
                               caller.new_sequence + caller.v, caller.M - caller.v,
                               caller.current_x + caller.u, caller.current_y + caller.v)>>
               ELSE rest \o <<[caller EXCEPT !.pc = "ret", !.rtn = merged]>>
    /\ UNCHANGED <<a, b, fms, constructed, Vf, Vb, result, prev, calls, oob>>

\* The outermost call returns to main (line 220).
Finish ==
    /\ Len(stack) = 1
    /\ Top.pc = "ret"
    /\ result' = Top.rtn
    /\ stack' = <<>>
    /\ calls' = calls + 1
    /\ UNCHANGED <<a, b, fms, constructed, Vf, Vb, prev, oob>>

\* A process that calls the diff again: ShortestEditScript(a', len, b', len, 0, 0).
\* The statics Vf and Vb are what the calls before left.
CallAgain ==
    /\ stack = <<>>
    /\ calls < MaxCalls
    /\ \E in \in SessionInputs :
         /\ a' = in[1]
         /\ b' = in[2]
         /\ stack' = <<NewFrame(0, Len(in[1]), 0, Len(in[2]), 0, 0)>>
    /\ prev' = [a |-> a, b |-> b, result |-> result]
    /\ UNCHANGED <<fms, constructed, Vf, Vb, result, calls, oob>>

Next ==
    \/ SESBase
    \/ FMSBegin
    \/ ForwardStep
    \/ BackwardStep
    \/ SESSplit
    \/ SESSingle
    \/ Return
    \/ Finish

Spec == Init /\ [][Next]_vars

NextSession == Next \/ CallAgain

SpecSession == InitSession /\ [][NextSession]_vars

----------------------------------------------------------------------------
\* main's rendering of the result against the two arrays (lines 226-268),
\* as the sequence of the lines it prints: <<"+", b[j]>>, <<"-", a[i]>> or
\* <<" ", a[i]>>. `it` is the position of the iterator in the Diff d (1-based,
\* Len(d) + 1 is d.end()), i and j are main's 0-based indices.

Done == stack = <<>> /\ calls > 0

RECURSIVE RenderFrom(_, _, _, _)
RenderFrom(d, it, i, j) ==
    IF i < Len(a) /\ j < Len(b)
    THEN IF it <= Len(d) /\ d[it][2] = "add" /\ d[it][1] = j
            THEN <<<<"+", b[j + 1]>>>> \o RenderFrom(d, it + 1, i, j + 1)
         ELSE IF it <= Len(d) /\ d[it][2] = "del" /\ d[it][1] = i
            THEN <<<<"-", a[i + 1]>>>> \o RenderFrom(d, it + 1, i + 1, j)
         ELSE <<<<" ", a[i + 1]>>>> \o RenderFrom(d, it, i + 1, j + 1)
    ELSE IF i < Len(a)
    THEN <<<<"-", a[i + 1]>>>> \o RenderFrom(d, it, i + 1, j)
    ELSE IF j < Len(b)
    THEN <<<<"+", b[j + 1]>>>> \o RenderFrom(d, it, i, j + 1)
    ELSE <<>>

Render(d) == RenderFrom(d, 1, 0, 0)

----------------------------------------------------------------------------
\* Reference definitions the properties are stated with.

Max(m, n) == IF m >= n THEN m ELSE n

Min(m, n) == IF m <= n THEN m ELSE n

RECURSIVE FillRow(_, _, _, _)
\* One row of the longest-common-subsequence table: acc[j + 1] is the length
\* for the prefix of t of length j, above is the row before.
FillRow(above, c, t, acc) ==
    IF Len(acc) = Len(t) + 1 THEN acc
    ELSE LET j == Len(acc)
         IN  FillRow(above, c, t,
                Append(acc, IF c = t[j] THEN above[j] + 1
                            ELSE Max(above[j + 1], acc[j])))

RECURSIVE LCSRows(_, _, _)
LCSRows(s, t, above) ==
    IF s = <<>> THEN above[Len(t) + 1]
    ELSE LCSRows(Tail(s), t, FillRow(above, Head(s), t, <<0>>))

\* The length of a longest common subsequence of s and t
LCS(s, t) == LCSRows(s, t, [j \in 1 .. Len(t) + 1 |-> 0])

\* The part of main's arrays a frame works on
OldOf(f) == [i \in 1 .. f.N |-> a[f.old_sequence + i]]
NewOf(f) == [i \in 1 .. f.M |-> b[f.new_sequence + i]]

\* The positions of the operations with tag t, in the Diff's order
Positions(d, t) ==
    LET sel == SelectSeq(d, LAMBDA p : p[2] = t)
    IN  [i \in 1 .. Len(sel) |-> sel[i][1]]

Reverse(s) == [i \in 1 .. Len(s) |-> s[Len(s) + 1 - i]]

Invalid == <<-1>>

RECURSIVE RemoveAll(_, _)
\* Remove from s the elements at the 0-based positions ps, one after another.
RemoveAll(s, ps) ==
    IF ps = <<>> THEN s
    ELSE LET p == Head(ps)
         IN  IF s = Invalid \/ p < 0 \/ p >= Len(s) THEN Invalid
             ELSE RemoveAll(SubSeq(s, 1, p) \o SubSeq(s, p + 2, Len(s)), Tail(ps))

RECURSIVE InsertAll(_, _, _)
\* Insert into s, at the 0-based positions ps one after another, t's elements
\* at these positions.
InsertAll(s, ps, t) ==
    IF ps = <<>> THEN s
    ELSE LET p == Head(ps)
         IN  IF s = Invalid \/ p < 0 \/ p > Len(s) \/ p >= Len(t) THEN Invalid
             ELSE InsertAll(SubSeq(s, 1, p) \o <<t[p + 1]>> \o SubSeq(s, p + 1, Len(s)),
                            Tail(ps), t)

\* a with the "del" operations applied in descending order of old index, then
\* the "add" operations in ascending order of new index
Patched(d) ==
    InsertAll(RemoveAll(a, Reverse(Positions(d, "del"))), Positions(d, "add"), b)

\* The frame whose FindMiddleSnake has just returned
AtSnake(f) == f.pc = "snake"

----------------------------------------------------------------------------
\* C1. Reconstruction: when ShortestEditScript(a, N, b, M, 0, 0) has returned,
\* removing from a the elements at the "del" positions (descending) and then
\* inserting b's elements at the "add" positions (ascending) gives exactly b.
Reconstruction == Done => Patched(result) = b

ReconstructionWitness ==
    /\ Done
    /\ Len(Positions(result, "del")) >= 1
    /\ Len(Positions(result, "add")) >= 2
    /\ LCS(a, b) >= 1

\* C2. Minimality: the number of operations returned equals
\* N + M - 2 * LCS(a, b).
Minimality == Done => Len(result) = Len(a) + Len(b) - 2 * LCS(a, b)

MinimalityWitness ==
    /\ Done
    /\ LCS(a, b) >= 1
    /\ LCS(a, b) < Min(Len(a), Len(b))
    /\ Len(result) >= 3

\* C3. Determinism: a call of the diff with the inputs of the call before it
\* returns what that call returned, whatever calls ran earlier in the process.
Determinism ==
    (Done /\ calls >= 2 /\ prev.a = a /\ prev.b = b) => result = prev.result

\* C4 as stated. The rendering of main's arrays is: unchanged 1, unchanged 4,
\* delete 27, insert 20, unchanged 21, insert 22, unchanged 23, unchanged 24,
\* insert 25, unchanged 26, delete 28, unchanged 13; with 5 operations, the
\* minimal number.
ScenarioDeleteFirst ==
    (Done /\ a = MainOld /\ b = MainNew) =>
        /\ Render(result) =
             << <<" ", 1>>, <<" ", 4>>, <<"-", 27>>, <<"+", 20>>, <<" ", 21>>,
                <<"+", 22>>, <<" ", 23>>, <<" ", 24>>, <<"+", 25>>, <<" ", 26>>,
                <<"-", 28>>, <<" ", 13>> >>
        /\ Len(result) = 5
        /\ Len(result) = Len(a) + Len(b) - 2 * LCS(a, b)

\* C4 as amended. The rendering of main's arrays is: unchanged 1, unchanged 4,
\* insert 20, delete 27, unchanged 21, insert 22, unchanged 23, unchanged 24,
\* insert 25, unchanged 26, delete 28, unchanged 13 (at position 2 the "add"
\* precedes the "del"); with 5 operations, the minimal number.
ScenarioInsertFirst ==
    (Done /\ a = MainOld /\ b = MainNew) =>
        /\ Render(result) =
             << <<" ", 1>>, <<" ", 4>>, <<"+", 20>>, <<"-", 27>>, <<" ", 21>>,
                <<"+", 22>>, <<" ", 23>>, <<" ", 24>>, <<"+", 25>>, <<" ", 26>>,
                <<"-", 28>>, <<" ", 13>> >>
        /\ Len(result) = 5
        /\ Len(result) = Len(a) + Len(b) - 2 * LCS(a, b)

ScenarioWitness == Done /\ a = MainOld /\ b = MainNew /\ Len(result) = 5

\* C5. Diagonal-array key range: every key used to read or write Vf or Vb, in
\* the first invocation of FindMiddleSnake and in every later one, lies inside
\* the range [start_, end_] the array was allocated with.
KeysInRange == ~oob

\* C6. The two searches meet: every FindMiddleSnake with N > 0 and M > 0
\* returns from one of the two overlap checks, in a round D <= ceil((N+M)/2),
\* never from the fall-through after the loop.
SearchesMeet ==
    \A i \in 1 .. Len(stack) :
        AtSnake(stack[i]) =>
            /\ stack[i].from \in {"fwd", "bwd"}
            /\ (stack[i].D + 1) \div 2 <= LoopBound(stack[i].N + stack[i].M)

SearchesMeetWitness ==
    /\ stack # <<>>
    /\ AtSnake(Top)
    /\ Top.from = "fwd"
    /\ (Top.D + 1) \div 2 = LoopBound(Top.N + Top.M)
    /\ Top.N + Top.M >= 5

\* C7. Middle-snake distance: the first component FindMiddleSnake returns
\* equals N + M - 2 * LCS(old_sequence, new_sequence).
MiddleSnakeDistance ==
    \A i \in 1 .. Len(stack) :
        AtSnake(stack[i]) =>
            stack[i].D = stack[i].N + stack[i].M
                            - 2 * LCS(OldOf(stack[i]), NewOf(stack[i]))

MiddleSnakeDistanceWitness ==
    /\ Len(stack) >= 2
    /\ AtSnake(Top)
    /\ Top.D >= 2
    /\ LCS(OldOf(Top), NewOf(Top)) >= 1

\* C8. Snake well-formedness: the points (x, y) and (u, v) FindMiddleSnake
\* returns satisfy 0 <= x <= u <= N, 0 <= y <= v <= M, x - y = u - v, and
\* old_sequence[x + i] = new_sequence[y + i] for every 0 <= i < u - x.
SnakeWellFormed ==
    \A n \in 1 .. Len(stack) :
        LET f == stack[n]
        IN  AtSnake(f) =>
              /\ 0 <= f.x /\ f.x <= f.u /\ f.u <= f.N
              /\ 0 <= f.y /\ f.y <= f.v /\ f.v <= f.M
              /\ f.x - f.y = f.u - f.v
              /\ (f.x # f.u) <=> (f.y # f.v)
              /\ \A i \in 0 .. f.u - f.x - 1 :
                    a[f.old_sequence + f.x + i + 1] = b[f.new_sequence + f.y + i + 1]

SnakeWellFormedWitness ==
    /\ stack # <<>>
    /\ AtSnake(Top)
    /\ Top.from = "bwd"
    /\ Top.D >= 2
    /\ Top.u - Top.x >= 2

\* C9. Strict decrease: every recursive call of ShortestEditScript has
\* non-negative lengths whose sum is strictly smaller than its caller's N + M,
\* and an invocation that has not returned can always take its next step, so
\* that ShortestEditScript terminates.
StrictDecrease ==
    /\ \A i \in 2 .. Len(stack) :
          /\ stack[i].N >= 0
          /\ stack[i].M >= 0
          /\ stack[i].N + stack[i].M < stack[i - 1].N + stack[i - 1].M
    /\ stack # <<>> => ENABLED Next

\* A call made for a part beside a snake of length zero found with D > 1
StrictDecreaseWitness ==
    /\ Len(stack) >= 2
    /\ LET caller == stack[Len(stack) - 1]
       IN  /\ caller.pc = "after"
           /\ caller.D > 1
           /\ caller.x = caller.u
           /\ caller.y = caller.v

\* C10. Single-edit branch: when ShortestEditScript does not subdivide, then
\* |N - M| = 1 and old_sequence[i] = new_sequence[i] for every i < min(N, M);
\* the branch emits exactly one operation, an "add" at current_y + N when
\* M = N + 1 and a "del" at current_x + M when N = M + 1.
SingleEdit ==
    \A n \in 1 .. Len(stack) :
        LET f == stack[n]
        IN  /\ (AtSnake(f) /\ ~Subdivide(f.D, f.x, f.y, f.u, f.v)) =>
                  /\ f.M = f.N + 1 \/ f.N = f.M + 1
                  /\ \A i \in 1 .. Min(f.N, f.M) :
                        a[f.old_sequence + i] = b[f.new_sequence + i]
            /\ (f.pc = "tail" /\ n + 1 = Len(stack) /\ Top.pc = "ret") =>
                  Top.rtn = IF f.M = f.N + 1
                              THEN << <<f.current_y + f.N, "add">> >>
                              ELSE << <<f.current_x + f.M, "del">> >>

SingleEditWitness ==
    /\ Len(stack) >= 3
    /\ Top.pc = "ret"
    /\ stack[Len(stack) - 1].pc = "tail"
    /\ stack[Len(stack) - 1].N >= 2
    /\ Top.rtn = << <<stack[Len(stack) - 1].current_y + stack[Len(stack) - 1].N, "add">> >>

====
